---- MODULE Spec2Model ----
(***************************************************************************)
(* Model of src/bot.py: the NotificationBot rule store, the                *)
(* should_send_notification predicate with its sent_notifications ledger,  *)
(* and the check_notifications task loop, interleaved with the add /       *)
(* remove / toggle commands at the loop's await points.                    *)
(*                                                                         *)
(* Spec        two channels, commands interleaved with the task loop       *)
(* SoloSpec    the same with all commands coming from one channel         *)
(* StoreSpec   the store methods called one after another, each recorded   *)
(* FaultSpec   the same calls when save_notifications can raise            *)
(* RestartSpec SoloSpec with abrupt stops and restarts of the process      *)
(***************************************************************************)
EXTENDS Integers, Sequences, FiniteSets

(* ------------------------------ bounds -------------------------------- *)
\* rule objects created by add_notification in one run
MaxAdds == 2
\* last calendar day of the run; day 0 is Monday 2024-01-01
MaxDay == 1

(* ------------------------------ inputs -------------------------------- *)
\* ctx.channel.id values
Channels == {1, 2}
\* outcomes of str(uuid.uuid4())[:8]
Ids == {"a1b2c3d4", "e5f6a7b8"}
\* minutes of the day at which the clock is sampled: 00:00 and 00:01
Minutes == {0, 1}
\* time_str arguments
TimeArgs == {"00:01"}
\* an Optional argument: <<>> is None, <<v>> is the value v
None == <<>>
Some(v) == <<v>>
\* weekdays arguments: omitted, Tuesday only
WeekdayArgs == {None, Some({1})}

VARIABLES
  notifications,  \* self.notifications: ordered dict, channel key -> list of rules
  file,           \* contents of notifications.json
  sent,           \* self.sent_notifications
  nextObj,        \* identity of the next rule dict that add_notification creates
  now,            \* the JST wall clock: [day, hm]
  pc,             \* position of check_notifications
  di_used,        \* dict iterator: size of the dict when the iterator was made
  di_pos,         \* dict iterator: entries already returned
  cur,            \* key of the list the inner for loop iterates
  it_index,       \* list iterator: index of the next element
  sending,        \* the rule whose embed channel.send is delivering
  ev,             \* the call of should_send_notification made by the last step
  fired,          \* the calls of should_send_notification that returned True
  failedSends,    \* the calls of channel.send that raised
  wake,           \* bookkeeping of the wake-up in progress
  ret             \* the last call of a store method, when the run records calls

\* pc: "idle"    the task sleeps between two wake-ups
\*     "chan"    the outer for statement asks the dict iterator for an entry
\*     "rule"    the inner for statement asks the list iterator for a rule
\*     "await"   the body is suspended in await channel.send
\*     "done"    the body has returned
\*     "crashed" an exception has left the body and the task has ended
\*     "stopped" the process is not running
\*     "failed"  the process could not start
\* ev, fired, failedSends and wake record what the code did; the code does not
\* read them. A rule's obj field is the identity of its dict object.
vars == <<notifications, file, sent, nextObj, now, pc, di_used, di_pos, cur,
          it_index, sending, ev, fired, failedSends, wake, ret>>

(* ------------------------------ helpers ------------------------------- *)
Digit == <<"0", "1", "2", "3", "4", "5", "6", "7", "8", "9">>

\* "%02d"
Pad2(n) == Digit[(n \div 10) + 1] \o Digit[(n % 10) + 1]

\* now.strftime('%H:%M') for the minute hm of the day
StrfHM(hm) == Pad2(hm \div 60) \o ":" \o Pad2(hm % 60)

\* now.strftime('%Y-%m-%d'); day 0 is 2024-01-01
StrfDate(day) == "2024-01-" \o Pad2(day + 1)

\* now.weekday(); 2024-01-01 is a Monday
Weekday(day) == day % 7

\* list(range(7))
AllDays == 0 .. 6

\* str(channel_id)
ChannelKey(c) == Digit[c + 1]

\* index of the entry of key k in the dict d, 0 when k is not in d
KeyPos(d, k) ==
  IF \E i \in 1 .. Len(d) : d[i].key = k
  THEN CHOOSE i \in 1 .. Len(d) : d[i].key = k
  ELSE 0

\* self.notifications.get(channel_key, [])
GetNotifications(d, c) ==
  IF KeyPos(d, ChannelKey(c)) = 0 THEN <<>> ELSE d[KeyPos(d, ChannelKey(c))].rules

\* index of the first rule of list l whose id is x, 0 when there is none
FirstWithId(l, x) ==
  IF \E i \in 1 .. Len(l) : l[i].id = x
  THEN CHOOSE i \in 1 .. Len(l) : l[i].id = x /\ \A j \in 1 .. (i - 1) : l[j].id # x
  ELSE 0

\* some rule of channel c in store d has the id x
HasId(d, c, x) == FirstWithId(GetNotifications(d, c), x) # 0

\* list.pop(i), 1-based
Pop(l, i) == SubSeq(l, 1, i - 1) \o SubSeq(l, i + 1, Len(l))

NoRule == [obj |-> 0]

\* no call of should_send_notification in the last step
NoEval == [rule |-> NoRule]

\* no recorded call of a store method
NoRet == [op |-> "none"]

(* ------------------------- notifications.json ------------------------- *)
\* The file is [state, text]: "absent" before the first save, "whole" when
\* json.dump has written all of a store, "torn" when open(..., 'w') has
\* truncated the file and json.dump has not finished. The text of a whole
\* file is the store that was dumped: channel keys are already strings,
\* weekdays are ints, the other fields are strings and booleans, so json.load
\* gives back the same keys in the same order with the same values. A
\* rule's obj rides along as the model's name of the rule.
Absent == [state |-> "absent", text |-> <<>>]

\* open(NOTIFICATIONS_FILE, 'w') followed by a json.dump that has not finished
Torn == [state |-> "torn", text |-> <<>>]

\* save_notifications run to its end
JsonDump(d) == [state |-> "whole", text |-> d]

\* load_notifications: [ok, store]; FileNotFoundError gives {}, a torn file
\* makes json.load raise JSONDecodeError, which is not caught
LoadNotifications(f) ==
  IF f.state = "absent" THEN [ok |-> TRUE, store |-> <<>>]
  ELSE IF f.state = "whole" THEN [ok |-> TRUE, store |-> f.text]
  ELSE [ok |-> FALSE, store |-> <<>>]

(* ------------------------------- Init --------------------------------- *)
NoWake == [due |-> {}, delivered |-> <<>>, last |-> [obj |-> 0, day |-> 0],
           failed |-> FALSE, mutated |-> FALSE]

\* NotificationBot() with no notifications.json: load_notifications returns {}
Init ==
  /\ notifications = LoadNotifications(Absent).store
  /\ file = Absent
  /\ sent = {}
  /\ nextObj = 1
  /\ now = [day |-> 0, hm |-> 0]
  /\ pc = "idle"
  /\ di_used = 0
  /\ di_pos = 0
  /\ cur = ""
  /\ it_index = 0
  /\ sending = NoRule
  /\ ev = NoEval
  /\ fired = {}
  /\ failedSends = {}
  /\ wake = NoWake
  /\ ret = NoRet

(* ----------------------------- commands ------------------------------ *)
\* The commands are coroutines of the same event loop as check_notifications:
\* they run while the task sleeps between wake-ups, while it is suspended in
\* await channel.send, and after it has stopped.
CommandPoints == {"idle", "await", "crashed"}

\* bookkeeping: a command that changes the store while a wake-up is in progress
NoteMutation == IF pc = "await" THEN [wake EXCEPT !.mutated = TRUE] ELSE wake

\* if channel_key not in self.notifications: self.notifications[channel_key] = []
WithKey(d, k) ==
  IF KeyPos(d, k) = 0 THEN Append(d, [key |-> k, rules |-> <<>>]) ELSE d

\* the notification dict that add_notification builds
NewRule(obj, id, t, w, rep) ==
  [obj |-> obj, id |-> id, time |-> t,
   weekdays |-> IF w = None THEN AllDays ELSE w[1],
   repeat |-> rep, enabled |-> TRUE]

\* add_notification: the store after the append
AddNotification(d, c, rule) ==
  LET d1 == WithKey(d, ChannelKey(c))
      p == KeyPos(d1, ChannelKey(c))
  IN [d1 EXCEPT ![p].rules = Append(@, rule)]

\* a remove_notification that looks for the id in every channel's list
RemoveNotification_AnyChannel(d, c, x) ==
  IF \E q \in 1 .. Len(d) : FirstWithId(d[q].rules, x) # 0
  THEN LET p == CHOOSE q \in 1 .. Len(d) :
                  /\ FirstWithId(d[q].rules, x) # 0
                  /\ \A k \in 1 .. (q - 1) : FirstWithId(d[k].rules, x) = 0
           i == FirstWithId(d[p].rules, x)
       IN [store |-> [d EXCEPT ![p].rules = Pop(@, i)], found |-> TRUE,
           removed |-> d[p].rules[i]]
  ELSE [store |-> d, found |-> FALSE, removed |-> NoRule]

\* remove_notification: the store after the call and the value returned
RemoveNotification(d, c, x) ==
  LET p == KeyPos(d, ChannelKey(c))
      i == IF p = 0 THEN 0 ELSE FirstWithId(d[p].rules, x)
  IN IF i = 0
     THEN [store |-> d, found |-> FALSE, removed |-> NoRule]
     ELSE [store |-> [d EXCEPT ![p].rules = Pop(@, i)], found |-> TRUE,
           removed |-> d[p].rules[i]]

\* a toggle_notification that creates the channel's entry when it finds no rule
ToggleNotification_MissAddsKey(d, c, x) ==
  LET p == KeyPos(d, ChannelKey(c))
      i == IF p = 0 THEN 0 ELSE FirstWithId(d[p].rules, x)
  IN IF i = 0
     THEN [store |-> WithKey(d, ChannelKey(c)), found |-> FALSE, enabled |-> FALSE]
     ELSE [store |-> [d EXCEPT ![p].rules[i].enabled = ~@], found |-> TRUE,
           enabled |-> ~d[p].rules[i].enabled]

\* a toggle_notification that disables the rule it finds
ToggleNotification_Disable(d, c, x) ==
  LET p == KeyPos(d, ChannelKey(c))
      i == IF p = 0 THEN 0 ELSE FirstWithId(d[p].rules, x)
  IN IF i = 0
     THEN [store |-> d, found |-> FALSE, enabled |-> FALSE]
     ELSE [store |-> [d EXCEPT ![p].rules[i].enabled = FALSE], found |-> TRUE,
           enabled |-> FALSE]

\* toggle_notification: the store after the call and the value returned
ToggleNotification(d, c, x) ==
  LET p == KeyPos(d, ChannelKey(c))
      i == IF p = 0 THEN 0 ELSE FirstWithId(d[p].rules, x)
  IN IF i = 0
     THEN [store |-> d, found |-> FALSE, enabled |-> FALSE]
     ELSE [store |-> [d EXCEPT ![p].rules[i].enabled = ~@], found |-> TRUE,
           enabled |-> ~d[p].rules[i].enabled]

Add(c, t, w, rep, id) ==
  /\ pc \in CommandPoints
  /\ nextObj <= MaxAdds
  /\ notifications' = AddNotification(notifications, c, NewRule(nextObj, id, t, w, rep))
  /\ file' = JsonDump(notifications')
  /\ nextObj' = nextObj + 1
  /\ wake' = NoteMutation
  /\ ev' = NoEval
  /\ UNCHANGED <<ret, failedSends, sent, now, pc, di_used, di_pos, cur, it_index, sending,
                 fired>>

Remove(c, x) ==
  LET r == RemoveNotification(notifications, c, x) IN
  /\ pc \in CommandPoints
  /\ notifications' = r.store
  /\ file' = IF r.found THEN JsonDump(r.store) ELSE file
  /\ wake' = IF r.found THEN NoteMutation ELSE wake
  /\ ev' = NoEval
  /\ UNCHANGED <<ret, failedSends, sent, nextObj, now, pc, di_used, di_pos, cur, it_index, sending,
                 fired>>

\* a toggle command that does not call save_notifications
Toggle_NoSave(c, x) ==
  LET r == ToggleNotification(notifications, c, x) IN
  /\ pc \in CommandPoints
  /\ notifications' = r.store
  /\ wake' = IF r.found THEN NoteMutation ELSE wake
  /\ ev' = NoEval
  /\ UNCHANGED <<ret, file, failedSends, sent, nextObj, now, pc, di_used, di_pos, cur,
                 it_index, sending, fired>>

Toggle(c, x) ==
  LET r == ToggleNotification(notifications, c, x) IN
  /\ pc \in CommandPoints
  /\ notifications' = r.store
  /\ file' = IF r.found THEN JsonDump(r.store) ELSE file
  /\ wake' = IF r.found THEN NoteMutation ELSE wake
  /\ ev' = NoEval
  /\ UNCHANGED <<ret, failedSends, sent, nextObj, now, pc, di_used, di_pos, cur, it_index, sending,
                 fired>>

(* ------------------------------- clock -------------------------------- *)
\* the next sampled minute after now
LaterClock ==
  IF \E m \in Minutes : m > now.hm
  THEN [now EXCEPT !.hm = CHOOSE m \in Minutes :
                            m > now.hm /\ \A k \in Minutes : k > now.hm => m <= k]
  ELSE [day |-> now.day + 1,
        hm |-> CHOOSE m \in Minutes : \A k \in Minutes : m <= k]

\* the wall clock moves on to the next sampled minute; the stretches of
\* check_notifications between two awaits take no time
Tick ==
  /\ pc \in CommandPoints
  /\ now' = LaterClock
  /\ now'.day <= MaxDay
  /\ ev' = NoEval
  /\ UNCHANGED <<ret, failedSends, notifications, file, sent, nextObj, pc, di_used, di_pos, cur,
                 it_index, sending, fired, wake>>

(* ------------------------ should_send_notification ------------------- *)
\* f"{notification['id']}_{now.strftime('%Y-%m-%d')}"
LedgerKey(n, clock) == n.id \o "_" \o StrfDate(clock.day)

\* mutant: the ledger is not consulted before a non-repeating rule fires
ShouldSend_NoLedgerCheck(n, clock, ledger) ==
  IF ~n.enabled
  THEN [result |-> FALSE, sent |-> ledger]
  ELSE IF n.time # StrfHM(clock.hm)
  THEN [result |-> FALSE, sent |-> ledger]
  ELSE IF Weekday(clock.day) \notin n.weekdays
  THEN [result |-> FALSE, sent |-> ledger]
  ELSE IF ~n.repeat
  THEN [result |-> TRUE, sent |-> ledger \cup {LedgerKey(n, clock)}]
  ELSE [result |-> TRUE, sent |-> ledger]

\* mutant: the time of day is not compared
ShouldSend_NoTimeCheck(n, clock, ledger) ==
  IF ~n.enabled
  THEN [result |-> FALSE, sent |-> ledger]
  ELSE IF Weekday(clock.day) \notin n.weekdays
  THEN [result |-> FALSE, sent |-> ledger]
  ELSE IF ~n.repeat /\ LedgerKey(n, clock) \in ledger
  THEN [result |-> FALSE, sent |-> ledger]
  ELSE IF ~n.repeat
  THEN [result |-> TRUE, sent |-> ledger \cup {LedgerKey(n, clock)}]
  ELSE [result |-> TRUE, sent |-> ledger]

\* mutant: the enabled flag is not tested
ShouldSend_NoEnabledCheck(n, clock, ledger) ==
  IF n.time # StrfHM(clock.hm)
  THEN [result |-> FALSE, sent |-> ledger]
  ELSE IF Weekday(clock.day) \notin n.weekdays
  THEN [result |-> FALSE, sent |-> ledger]
  ELSE IF ~n.repeat /\ LedgerKey(n, clock) \in ledger
  THEN [result |-> FALSE, sent |-> ledger]
  ELSE IF ~n.repeat
  THEN [result |-> TRUE, sent |-> ledger \cup {LedgerKey(n, clock)}]
  ELSE [result |-> TRUE, sent |-> ledger]

\* mutant: the ledger gates repeating rules too
ShouldSend_GateRepeating(n, clock, ledger) ==
  IF ~n.enabled
  THEN [result |-> FALSE, sent |-> ledger]
  ELSE IF n.time # StrfHM(clock.hm)
  THEN [result |-> FALSE, sent |-> ledger]
  ELSE IF Weekday(clock.day) \notin n.weekdays
  THEN [result |-> FALSE, sent |-> ledger]
  ELSE IF LedgerKey(n, clock) \in ledger
  THEN [result |-> FALSE, sent |-> ledger]
  ELSE [result |-> TRUE, sent |-> ledger \cup {LedgerKey(n, clock)}]

\* mutant: the weekday of the clock is not compared with the rule's weekdays
ShouldSend_NoWeekdayCheck(n, clock, ledger) ==
  IF ~n.enabled
  THEN [result |-> FALSE, sent |-> ledger]
  ELSE IF n.time # StrfHM(clock.hm)
  THEN [result |-> FALSE, sent |-> ledger]
  ELSE IF ~n.repeat /\ LedgerKey(n, clock) \in ledger
  THEN [result |-> FALSE, sent |-> ledger]
  ELSE IF ~n.repeat
  THEN [result |-> TRUE, sent |-> ledger \cup {LedgerKey(n, clock)}]
  ELSE [result |-> TRUE, sent |-> ledger]

\* should_send_notification: the value returned and the ledger after the call
ShouldSendNotification(n, clock, ledger) ==
  IF ~n.enabled
  THEN [result |-> FALSE, sent |-> ledger]
  ELSE IF n.time # StrfHM(clock.hm)
  THEN [result |-> FALSE, sent |-> ledger]
  ELSE IF Weekday(clock.day) \notin n.weekdays
  THEN [result |-> FALSE, sent |-> ledger]
  ELSE IF ~n.repeat /\ LedgerKey(n, clock) \in ledger
  THEN [result |-> FALSE, sent |-> ledger]
  ELSE IF ~n.repeat
  THEN [result |-> TRUE, sent |-> ledger \cup {LedgerKey(n, clock)}]
  ELSE [result |-> TRUE, sent |-> ledger]

(* --------------------------- check_notifications ---------------------- *)
\* the list object that the inner for loop iterates
CurList == notifications[KeyPos(notifications, cur)].rules

\* bookkeeping: the rules of list l that a call now would fire
DueIn(l) ==
  {l[i].obj : i \in {j \in 1 .. Len(l) : ShouldSendNotification(l[j], now, sent).result}}

\* bookkeeping: one call that returned True
FireEvent(n, clock) == [obj |-> n.obj, day |-> clock.day]

\* the task wakes up and makes the iterator of self.notifications.items()
WakeUp ==
  /\ pc = "idle"
  /\ pc' = "chan"
  /\ di_used' = Len(notifications)
  /\ di_pos' = 0
  /\ wake' = NoWake
  /\ ev' = NoEval
  /\ UNCHANGED <<ret, failedSends, notifications, file, sent, nextObj, now, cur, it_index, sending,
                 fired>>

\* next() of the dict iterator finds the dict grown: RuntimeError, raised by
\* the for statement outside the try block, ends the task
IterChanged ==
  /\ pc = "chan"
  /\ Len(notifications) # di_used
  /\ pc' = "crashed"
  /\ di_used' = 0
  /\ di_pos' = 0
  /\ cur' = ""
  /\ it_index' = 0
  /\ ev' = NoEval
  /\ UNCHANGED <<ret, failedSends, notifications, file, sent, nextObj, now, sending, fired,
                 wake>>

\* next() of the dict iterator is exhausted: the body returns
IterDone ==
  /\ pc = "chan"
  /\ Len(notifications) = di_used
  /\ di_pos >= Len(notifications)
  /\ pc' = "done"
  /\ di_used' = 0
  /\ di_pos' = 0
  /\ cur' = ""
  /\ it_index' = 0
  /\ ev' = NoEval
  /\ UNCHANGED <<ret, failedSends, notifications, file, sent, nextObj, now, sending, fired,
                 wake>>

\* next() of the dict iterator returns an entry; bot.get_channel finds the
\* channel (reachable) or returns None
IterChannel(reachable) ==
  /\ pc = "chan"
  /\ Len(notifications) = di_used
  /\ di_pos < Len(notifications)
  /\ di_pos' = di_pos + 1
  /\ IF reachable
     THEN /\ pc' = "rule"
          /\ cur' = notifications[di_pos + 1].key
          /\ it_index' = 0
          /\ wake' = [wake EXCEPT !.due = @ \cup DueIn(notifications[di_pos + 1].rules)]
     ELSE /\ pc' = "chan"
          /\ UNCHANGED <<cur, it_index, wake>>
  /\ ev' = NoEval
  /\ UNCHANGED <<ret, failedSends, notifications, file, sent, nextObj, now, di_used, sending,
                 fired>>

\* next() of the list iterator is exhausted: on to the next channel
RulesDone ==
  /\ pc = "rule"
  /\ it_index >= Len(CurList)
  /\ pc' = "chan"
  /\ ev' = NoEval
  /\ UNCHANGED <<ret, failedSends, notifications, file, sent, nextObj, now, di_used, di_pos, cur,
                 it_index, sending, fired, wake>>

\* next() of the list iterator returns a rule; should_send_notification
\* decides; on True the embed is built and channel.send is awaited
EvalRule ==
  /\ pc = "rule"
  /\ it_index < Len(CurList)
  /\ LET n == CurList[it_index + 1]
         r == ShouldSendNotification(n, now, sent)
     IN /\ it_index' = it_index + 1
        /\ sent' = r.sent
        /\ ev' = [rule |-> n, before |-> sent, result |-> r.result,
                  again |-> FireEvent(n, now) \in fired]
        /\ IF r.result
           THEN /\ pc' = "await"
                /\ sending' = n
                /\ fired' = fired \cup {FireEvent(n, now)}
                /\ wake' = [wake EXCEPT !.delivered = Append(@, n.obj),
                                        !.last = FireEvent(n, now)]
           ELSE /\ pc' = "rule"
                /\ UNCHANGED <<sending, fired, wake>>
  /\ UNCHANGED <<ret, failedSends, notifications, file, nextObj, now, di_used, di_pos, cur>>

\* channel.send returns
SendOk ==
  /\ pc = "await"
  /\ pc' = "rule"
  /\ sending' = NoRule
  /\ ev' = NoEval
  /\ UNCHANGED <<ret, failedSends, notifications, file, sent, nextObj, now, di_used, di_pos, cur,
                 it_index, fired, wake>>

\* mutant: the except clause takes the key of the failed rule out of the ledger
SendFail_Rollback ==
  /\ pc = "await"
  /\ pc' = "chan"
  /\ sending' = NoRule
  /\ sent' = sent \ {LedgerKey(sending, [day |-> wake.last.day])}
  /\ wake' = [wake EXCEPT !.failed = TRUE]
  /\ failedSends' = failedSends \cup {wake.last}
  /\ ev' = NoEval
  /\ UNCHANGED <<ret, notifications, file, nextObj, now, di_used, di_pos, cur, it_index,
                 fired>>

\* channel.send raises: the except clause around the channel's loop prints,
\* and the outer for loop goes on with the next channel
SendFail ==
  /\ pc = "await"
  /\ pc' = "chan"
  /\ sending' = NoRule
  /\ wake' = [wake EXCEPT !.failed = TRUE]
  /\ failedSends' = failedSends \cup {wake.last}
  /\ ev' = NoEval
  /\ UNCHANGED <<ret, notifications, file, sent, nextObj, now, di_used, di_pos, cur,
                 it_index, fired>>

\* the body has returned; the task sleeps until the next wake-up
Sleep ==
  /\ pc = "done"
  /\ pc' = "idle"
  /\ wake' = NoWake
  /\ ev' = NoEval
  /\ UNCHANGED <<ret, failedSends, notifications, file, sent, nextObj, now, di_used, di_pos, cur,
                 it_index, sending, fired>>

(* ---------------------------- specification --------------------------- *)
Next ==
  \/ \E c \in Channels, t \in TimeArgs, w \in WeekdayArgs, rep \in BOOLEAN, id \in Ids :
       Add(c, t, w, rep, id)
  \/ \E c \in Channels, x \in Ids : Remove(c, x)
  \/ \E c \in Channels, x \in Ids : Toggle(c, x)
  \/ Tick
  \/ WakeUp
  \/ IterChanged
  \/ IterDone
  \/ \E reachable \in BOOLEAN : IterChannel(reachable)
  \/ RulesDone
  \/ EvalRule
  \/ SendOk
  \/ SendFail
  \/ Sleep

Spec == Init /\ [][Next]_vars

(* --------------------- runs of a single channel ----------------------- *)
\* rule objects created by add_notification in a single-channel run
MaxSoloAdds == 1

\* All commands come from one channel. self.notifications then never grows
\* while check_notifications is suspended, so IterChanged is never enabled.
SoloChannels == {1}

SoloAdd(c, t, w, rep, id) ==
  /\ nextObj <= MaxSoloAdds
  /\ Add(c, t, w, rep, id)

SoloNext ==
  \/ \E c \in SoloChannels, t \in TimeArgs, w \in WeekdayArgs, rep \in BOOLEAN,
          id \in Ids :
       SoloAdd(c, t, w, rep, id)
  \/ \E c \in SoloChannels, x \in Ids : Remove(c, x)
  \/ \E c \in SoloChannels, x \in Ids : Toggle(c, x)
  \/ Tick
  \/ WakeUp
  \/ IterDone
  \/ \E reachable \in BOOLEAN : IterChannel(reachable)
  \/ RulesDone
  \/ EvalRule
  \/ SendOk
  \/ SendFail
  \/ Sleep

SoloSpec == Init /\ [][SoloNext]_vars

(* ------------------- runs with stops and restarts --------------------- *)
\* the process is gone: nothing of its memory is left
Halt ==
  /\ pc' = "stopped"
  /\ notifications' = <<>>
  /\ sent' = {}
  /\ di_used' = 0
  /\ di_pos' = 0
  /\ cur' = ""
  /\ it_index' = 0
  /\ sending' = NoRule
  /\ ev' = NoEval
  /\ wake' = NoWake
  /\ UNCHANGED <<ret, nextObj, now, fired, failedSends>>

Running == pc \notin {"stopped", "failed"}

\* some command that calls save_notifications can run now
SaveCanRun ==
  /\ pc \in CommandPoints
  /\ \/ nextObj <= MaxSoloAdds
     \/ \E c \in SoloChannels, x \in Ids : HasId(notifications, c, x)

\* the process is stopped abruptly outside save_notifications
Kill ==
  /\ Running
  /\ Halt
  /\ UNCHANGED file

\* The process is stopped abruptly inside save_notifications of an add, remove
\* or toggle command: open(..., 'w') has truncated the file and json.dump has
\* not written all of the store.
KillInSave ==
  /\ SaveCanRun
  /\ Halt
  /\ file' = Torn

\* time passes while the process is down
Downtime ==
  /\ pc = "stopped"
  /\ now' = LaterClock
  /\ now'.day <= MaxDay
  /\ UNCHANGED <<notifications, file, sent, nextObj, pc, di_used, di_pos, cur, it_index,
                 sending, ev, fired, failedSends, wake, ret>>

\* The process starts: NotificationBot() loads the file and empties the
\* ledger, on_ready starts check_notifications.
Start ==
  /\ pc = "stopped"
  /\ LoadNotifications(file).ok
  /\ notifications' = LoadNotifications(file).store
  /\ sent' = {}
  /\ pc' = "idle"
  /\ UNCHANGED <<file, nextObj, now, di_used, di_pos, cur, it_index, sending, ev, fired,
                 failedSends, wake, ret>>

\* the process starts and json.load raises: NotificationBot() fails at import
StartFails ==
  /\ pc = "stopped"
  /\ ~LoadNotifications(file).ok
  /\ pc' = "failed"
  /\ UNCHANGED <<notifications, file, sent, nextObj, now, di_used, di_pos, cur, it_index,
                 sending, ev, fired, failedSends, wake, ret>>

RestartNext ==
  \/ SoloNext
  \/ Kill
  \/ KillInSave
  \/ Downtime
  \/ Start
  \/ StartFails

RestartSpec == Init /\ [][RestartNext]_vars

(* --------------------- the store methods as calls --------------------- *)
\* weekdays arguments of a direct call of add_notification: omitted, Tuesday
\* only, the empty list
ApiWeekdayArgs == WeekdayArgs \cup {Some({})}

\* repeat arguments of a direct call of add_notification: left at its default
ApiRepeatArgs == {TRUE}

\* what a call finds when it starts
Before == [store |-> notifications, file |-> file, sent |-> sent]

\* What a call of save_notifications can do: "saved" it returns; "unopened"
\* open(..., 'w') raises and the file is as it was; "torn" the file is
\* truncated and a write of json.dump raises.
SaveOutcomes == {"saved", "unopened", "torn"}

\* the file after save_notifications of store d with outcome o
SaveNotifications(d, o) ==
  IF o = "saved" THEN JsonDump(d) ELSE IF o = "unopened" THEN file ELSE Torn

\* A call of add_notification whose save_notifications has outcome o,
\* recorded in ret. ret.returned is None when the method returned None or
\* raised, Some(v) when it returned v.
CallAdd(c, t, w, rep, id, o) ==
  /\ nextObj <= MaxAdds
  /\ notifications' = AddNotification(notifications, c, NewRule(nextObj, id, t, w, rep))
  /\ file' = SaveNotifications(notifications', o)
  /\ nextObj' = nextObj + 1
  /\ ret' = [op |-> "add", ch |-> c, id |-> id,
             returned |-> IF o = "saved" THEN Some(id) ELSE None, raised |-> o # "saved",
             before |-> Before, back |-> None]
  /\ UNCHANGED <<sent, now, pc, di_used, di_pos, cur, it_index, sending, ev, fired,
                 failedSends, wake>>

\* A call of remove_notification, recorded in ret; save_notifications is
\* called, with outcome o, only when a rule was found.
CallRemove(c, x, o) ==
  LET r == RemoveNotification(notifications, c, x) IN
  /\ r.found \/ o = "saved"
  /\ notifications' = r.store
  /\ file' = IF r.found THEN SaveNotifications(r.store, o) ELSE file
  /\ ret' = [op |-> "remove", ch |-> c, id |-> x,
             returned |-> IF r.found /\ o = "saved" THEN Some(r.removed) ELSE None,
             raised |-> o # "saved", before |-> Before, back |-> None]
  /\ UNCHANGED <<sent, nextObj, now, pc, di_used, di_pos, cur, it_index, sending, ev, fired,
                 failedSends, wake>>

\* the last recorded call was a toggle_notification(c, x) that found its rule
LastToggled(c, x) ==
  /\ ret.op = "toggle"
  /\ ret.ch = c
  /\ ret.id = x
  /\ ret.returned # None

\* a toggle_notification that puts the flag back when save_notifications raises
CallToggle_Rollback(c, x, o) ==
  LET r == ToggleNotification(notifications, c, x) IN
  /\ r.found \/ o = "saved"
  /\ notifications' = IF o = "saved" THEN r.store ELSE notifications
  /\ file' = IF r.found THEN SaveNotifications(r.store, o) ELSE file
  /\ ret' = [op |-> "toggle", ch |-> c, id |-> x,
             returned |-> IF r.found /\ o = "saved" THEN Some(r.enabled) ELSE None,
             raised |-> o # "saved", before |-> Before,
             back |-> IF r.found /\ LastToggled(c, x) THEN Some(ret.before.store) ELSE None]
  /\ UNCHANGED <<sent, nextObj, now, pc, di_used, di_pos, cur, it_index, sending, ev, fired,
                 failedSends, wake>>

\* A call of toggle_notification, recorded in ret; save_notifications is
\* called, with outcome o, only when a rule was found. ret.back is the store
\* before the previous call when that call toggled the same rule.
CallToggle(c, x, o) ==
  LET r == ToggleNotification(notifications, c, x) IN
  /\ r.found \/ o = "saved"
  /\ notifications' = r.store
  /\ file' = IF r.found THEN SaveNotifications(r.store, o) ELSE file
  /\ ret' = [op |-> "toggle", ch |-> c, id |-> x,
             returned |-> IF r.found /\ o = "saved" THEN Some(r.enabled) ELSE None,
             raised |-> o # "saved", before |-> Before,
             back |-> IF r.found /\ LastToggled(c, x) THEN Some(ret.before.store) ELSE None]
  /\ UNCHANGED <<sent, nextObj, now, pc, di_used, di_pos, cur, it_index, sending, ev, fired,
                 failedSends, wake>>

\* every save_notifications returns
StoreNext ==
  \/ \E c \in Channels, t \in TimeArgs, w \in ApiWeekdayArgs, rep \in ApiRepeatArgs,
          id \in Ids :
       CallAdd(c, t, w, rep, id, "saved")
  \/ \E c \in Channels, x \in Ids : CallRemove(c, x, "saved")
  \/ \E c \in Channels, x \in Ids : CallToggle(c, x, "saved")

StoreSpec == Init /\ [][StoreNext]_vars

(* ---------------------- calls whose save can fail --------------------- *)
FaultAdd(c, t, w, rep, id, o) ==
  /\ nextObj <= MaxSoloAdds
  /\ CallAdd(c, t, w, rep, id, o)

\* calls from one channel; each save_notifications returns or raises
FaultNext ==
  \/ \E c \in SoloChannels, t \in TimeArgs, w \in ApiWeekdayArgs, rep \in ApiRepeatArgs,
          id \in Ids, o \in SaveOutcomes :
       FaultAdd(c, t, w, rep, id, o)
  \/ \E c \in SoloChannels, x \in Ids, o \in SaveOutcomes : CallRemove(c, x, o)
  \/ \E c \in SoloChannels, x \in Ids, o \in SaveOutcomes : CallToggle(c, x, o)

FaultSpec == Init /\ [][FaultNext]_vars

(* ------------------------------ properties ---------------------------- *)
\* the last step was a call of should_send_notification
Evaluated == ev.rule.obj # 0

\* the minute and the weekday of the clock match rule n
Matches(n, clock) == n.time = StrfHM(clock.hm) /\ Weekday(clock.day) \in n.weekdays

\* the rules of the store
StoredRules ==
  {notifications[i].rules[j] :
     <<i, j>> \in {p \in (1 .. Len(notifications)) \X (1 .. MaxAdds + 1) :
                    p[2] <= Len(notifications[p[1]].rules)}}

\* C1: a non-repeating rule fires at most once per calendar date. A call that
\* returns True for it is the first such call for this rule object on this
\* date and finds the key (id, date) absent; every matching call leaves the
\* key in the ledger; a matching call that finds the key returns False.
C1_OncePerDate ==
  (Evaluated /\ ~ev.rule.repeat /\ ev.rule.enabled /\ Matches(ev.rule, now)) =>
     /\ LedgerKey(ev.rule, now) \in sent
     /\ ev.result = (LedgerKey(ev.rule, now) \notin ev.before)
     /\ ev.result => ~ev.again

\* C1 witness: a second matching call for a non-repeating rule on the date on
\* which it has fired returns False
C1_Witness ==
  /\ Evaluated /\ ~ev.rule.repeat /\ ev.rule.enabled /\ Matches(ev.rule, now)
  /\ ev.again
  /\ ~ev.result

\* C2: a non-repeating rule fires at most once ever: a call that returns True
\* for it is the first such call for this rule object on any date.
C2_OnceEver ==
  (Evaluated /\ ~ev.rule.repeat /\ ev.result) =>
     \A e \in fired : e.obj = ev.rule.obj => e.day = now.day

\* C3 as stated: for an enabled rule with all seven weekdays the call returns
\* True exactly when the current HH:MM equals the rule's time.
C3_AllDaysIffTime ==
  (Evaluated /\ ev.rule.enabled /\ ev.rule.weekdays = AllDays) =>
     (ev.result <=> ev.rule.time = StrfHM(now.hm))

\* C3 amended: for an enabled rule with all seven weekdays the call returns
\* True exactly when the current HH:MM equals the rule's time and the rule is
\* repeating or its key (id, today) is not yet in the ledger.
C3_AllDaysIffTimeAndLedger ==
  (Evaluated /\ ev.rule.enabled /\ ev.rule.weekdays = AllDays) =>
     (ev.result <=> /\ ev.rule.time = StrfHM(now.hm)
                    /\ (ev.rule.repeat \/ LedgerKey(ev.rule, now) \notin ev.before))

\* C3 witness: an all-days rule fires on a Tuesday
C3_Witness ==
  /\ Evaluated /\ ev.rule.enabled /\ ev.rule.weekdays = AllDays
  /\ Weekday(now.day) = 1
  /\ ev.result

\* C4: a disabled rule is inert: the call returns False and leaves the ledger
\* unchanged, and every rule handed to channel.send was enabled when it was
\* handed over.
C4_DisabledInert ==
  /\ (Evaluated /\ ~ev.rule.enabled) =>
        (~ev.result /\ sent = ev.before /\ pc # "await")
  /\ pc = "await" => sending.enabled

\* C4 witness: a disabled rule is evaluated in its matching minute and weekday
C4_Witness == Evaluated /\ ~ev.rule.enabled /\ Matches(ev.rule, now)

\* C5: an enabled repeating rule is not gated by the ledger: every call in a
\* matching minute and weekday returns True, hands the rule to channel.send
\* and leaves the ledger unchanged.
C5_RepeatingUngated ==
  (Evaluated /\ ev.rule.enabled /\ ev.rule.repeat /\ Matches(ev.rule, now)) =>
     /\ ev.result
     /\ sent = ev.before
     /\ pc = "await"
     /\ sending = ev.rule
     /\ wake.delivered # <<>>
     /\ wake.delivered[Len(wake.delivered)] = ev.rule.obj

\* C5 witness: a later wake-up in the same minute delivers a repeating rule
\* that an earlier wake-up has delivered
C5_Witness ==
  /\ Evaluated /\ ev.rule.enabled /\ ev.rule.repeat /\ Matches(ev.rule, now)
  /\ ev.again
  /\ pc = "await"

\* the rules that the wake-up found due on entering their channel, that it
\* has not handed to channel.send, and that a call now would still fire
Missed ==
  {n \in StoredRules :
     /\ n.obj \in wake.due
     /\ \A k \in 1 .. Len(wake.delivered) : wake.delivered[k] # n.obj
     /\ ShouldSendNotification(n, now, sent).result}

\* no rule is handed to channel.send twice in one wake-up
NoDouble ==
  \A j, k \in 1 .. Len(wake.delivered) :
     wake.delivered[j] = wake.delivered[k] => j = k

\* C6: a wake-up in which no delivery fails hands every fireable rule to
\* channel.send exactly once, also when add or remove commands run while the
\* scan is suspended: when the body returns, no rule that was due is left
\* fireable and undelivered, and none was delivered twice.
C6_ExactlyOncePerWakeUp ==
  (pc = "done" /\ ~wake.failed) => (Missed = {} /\ NoDouble)

\* C7: a delivery failure does not abort the scan: with no command run during
\* the wake-up, when the body returns no rule that was due is left fireable
\* and undelivered.
C7_FailureDoesNotAbort ==
  (pc = "done" /\ ~wake.mutated) => Missed = {}

\* C8: the loop never stops: no exception leaves the body of
\* check_notifications.
C8_LoopKeepsRunning == pc # "crashed"

\* C9: a delivery failure does not roll back the ledger: the key of a
\* non-repeating rule whose delivery raised stays in the ledger for that
\* date, and a later call for that rule on that date returns False.
C9_NoRollbackNoRetry ==
  /\ \A n \in StoredRules :
        (~n.repeat /\ FireEvent(n, now) \in failedSends) => LedgerKey(n, now) \in sent
  /\ (Evaluated /\ ~ev.rule.repeat /\ FireEvent(ev.rule, now) \in failedSends) =>
        ~ev.result

\* C9 witness: a later wake-up on the same date evaluates, in its matching
\* minute, a non-repeating rule whose delivery raised
C9_Witness ==
  /\ Evaluated /\ ~ev.rule.repeat /\ ev.rule.enabled /\ Matches(ev.rule, now)
  /\ FireEvent(ev.rule, now) \in failedSends

\* C10: remove(channel, X), for the id X that add returned for a rule of the
\* channel, returns that rule and leaves no rule with id X in the channel.
C10_RemoveAfterAdd ==
  [][\A c \in Channels, x \in Ids :
       Remove(c, x) =>
         \A i \in 1 .. Len(GetNotifications(notifications, c)) :
            GetNotifications(notifications, c)[i].id = x =>
              /\ RemoveNotification(notifications, c, x).removed =
                   GetNotifications(notifications, c)[i]
              /\ \A j \in 1 .. Len(GetNotifications(notifications', c)) :
                   GetNotifications(notifications', c)[j].id # x]_vars

\* every due rule is delivered by a wake-up with no failure and no command
ScanDeliversAllDue ==
  (pc = "done" /\ ~wake.failed /\ ~wake.mutated) => Missed = {}

(* ------------------- properties of the store methods ------------------ *)
\* the last recorded call was a remove or a toggle
LookedUp == ret.op \in {"remove", "toggle"}

\* the list of the last call's channel before the call, and now
ListBefore == GetNotifications(ret.before.store, ret.ch)
ListNow == GetNotifications(notifications, ret.ch)

\* the last call's channel had no rule of the id it was given
Missed_Id == ~HasId(ret.before.store, ret.ch, ret.id)

\* C11: a remove or toggle whose id no rule of the channel has (the channel
\* may have no entry at all) returns None, raises nothing, and leaves the
\* in-memory store, the file and the ledger as they were.
C11_MissIsNoOp ==
  (LookedUp /\ Missed_Id) =>
    /\ ret.returned = None
    /\ ~ret.raised
    /\ notifications = ret.before.store
    /\ file = ret.before.file
    /\ sent = ret.before.sent

\* a miss in a channel without entry while the other channel has one
C11_Witness ==
  /\ LookedUp
  /\ Missed_Id
  /\ notifications # <<>>
  /\ KeyPos(notifications, ChannelKey(ret.ch)) = 0

\* C12: a toggle that finds its rule flips that rule's enabled flag, flips
\* no other flag of the channel, and returns the new value; when the call
\* before it toggled the same id of the same channel, the store is again what
\* it was before that earlier call.
C12_ToggleFlipsOnce ==
  (ret.op = "toggle" /\ ~Missed_Id) =>
    LET i == FirstWithId(ListBefore, ret.id) IN
    /\ Len(ListNow) = Len(ListBefore)
    /\ ListNow[i].enabled = ~ListBefore[i].enabled
    /\ \A j \in 1 .. Len(ListBefore) : j # i => ListNow[j].enabled = ListBefore[j].enabled
    /\ ret.returned = Some(ListNow[i].enabled)
    /\ ret.back # None => notifications = ret.back[1]

\* the second of two toggles of a rule that was enabled, in a list of two
C12_Witness ==
  /\ ret.op = "toggle"
  /\ ret.back # None
  /\ ret.returned = Some(TRUE)
  /\ Len(ListNow) = 2

(* --------------------- properties of persistence ---------------------- *)
\* C13: persistence follows mutation and only mutation. Every step leaves a
\* file that loads to the in-memory store; a step that changes the store
\* writes the file, and a step that leaves the store alone (a wake-up's steps
\* among them) leaves the file alone.
C13_SaveFollowsMutation ==
  [][/\ LoadNotifications(file').ok
     /\ LoadNotifications(file').store = notifications'
     /\ (notifications' # notifications) => (file' = JsonDump(notifications'))
     /\ (notifications' = notifications) => (file' = file)]_vars

\* a wake-up has fired a rule and returned; the file written by the add is there
C13_Witness ==
  /\ pc = "done"
  /\ sent # {}
  /\ file.state = "whole"
  /\ file.text = notifications

(* ----------------------- properties of the rules ---------------------- *)
\* C14: every stored rule has at least one weekday.
C14_WeekdaysNonEmpty == \A n \in StoredRules : n.weekdays # {}

\* C15: no two rules of one channel's list have the same id.
C15_IdsUniquePerChannel ==
  \A c \in Channels :
    LET l == GetNotifications(notifications, c) IN
    \A i, j \in 1 .. Len(l) : i # j => l[i].id # l[j].id

\* C16: the file is at every instant a complete snapshot that the next
\* load_notifications can read, also after an abrupt stop.
C16_FileAlwaysWhole == LoadNotifications(file).ok

(* ------------------------ properties of restarts ---------------------- *)
\* C18: a call of should_send_notification that returns True for a
\* non-repeating rule is the first such call for the rule on this date, in
\* whichever run of the process the earlier calls were made.
C18_NoRefireAfterRestart ==
  (Evaluated /\ ~ev.rule.repeat /\ ev.result) => ~ev.again

(* ------------------------ properties of delivery ---------------------- *)
\* C17: there is no catch-up. A call of should_send_notification returns True,
\* and so hands the rule to channel.send, only when the minute of the clock
\* is the rule's time and the weekday of the clock is one of the rule's
\* weekdays; at any other moment it returns False and leaves the ledger
\* alone, whether or not an earlier occurrence of the rule went by without a
\* call. The rule that channel.send is delivering was handed over on one of
\* its weekdays.
C17_NoCatchUp ==
  /\ (Evaluated /\ ev.result) => Matches(ev.rule, now)
  /\ (Evaluated /\ ~Matches(ev.rule, now)) => (~ev.result /\ sent = ev.before)
  /\ (pc = "await") => Weekday(wake.last.day) \in sending.weekdays

\* an enabled every-day 00:01 rule that did not fire on day 0 is evaluated on
\* day 1 at 00:00 and does not fire
C17_Witness ==
  /\ Evaluated
  /\ ev.rule.enabled
  /\ ev.rule.weekdays = AllDays
  /\ now = [day |-> 1, hm |-> 0]
  /\ FireEvent(ev.rule, [day |-> 0]) \notin fired
  /\ ~ev.result

(* ---------------------- properties of failed saves -------------------- *)
\* the file loads to the store d
LoadsTo(f, d) == LoadNotifications(f).ok /\ LoadNotifications(f).store = d

\* the store after the last recorded call, had the call done all of its work
StoreAfterCall ==
  IF ret.op = "remove" THEN RemoveNotification(ret.before.store, ret.ch, ret.id).store
  ELSE IF ret.op = "toggle" THEN ToggleNotification(ret.before.store, ret.ch, ret.id).store
  ELSE notifications

\* the last recorded call changed the store and its save_notifications raised:
\* no value came back, and the change is in the store
FailedSaveKeepsChange ==
  /\ ret.returned = None
  /\ notifications # ret.before.store
  /\ notifications = StoreAfterCall
  /\ (ret.op = "add") =>
       /\ Len(ListNow) = Len(ListBefore) + 1
       /\ SubSeq(ListNow, 1, Len(ListBefore)) = ListBefore
       /\ ListNow[Len(ListNow)].id = ret.id

\* C19 as stated: when save_notifications raises inside add, remove or toggle,
\* the error reaches the caller, the change is kept, and the store differs
\* from what the file holds.
C19_FailedSaveLeavesDifference ==
  (ret.op # "none" /\ ret.raised) =>
    /\ FailedSaveKeepsChange
    /\ ~LoadsTo(file, notifications)

\* C19, amended: when save_notifications raises inside add, remove or toggle,
\* the error reaches the caller, the change is kept and the file is not
\* given the new store: it is as it was or torn. The store differs from what
\* the file holds whenever the two agreed before the call. A call whose save
\* returns leaves a file that loads to the store.
C19_FailedSaveKeepsChange ==
  /\ (ret.op # "none" /\ ret.raised) =>
       /\ FailedSaveKeepsChange
       /\ file \in {ret.before.file, Torn}
       /\ LoadsTo(ret.before.file, ret.before.store) => ~LoadsTo(file, notifications)
  /\ (ret.op # "none" /\ ~ret.raised /\ ret.returned # None) => LoadsTo(file, notifications)

\* a toggle whose save raised before the file was opened, after a call whose
\* save returned: the file still holds the store of before the toggle
C19_Witness ==
  /\ ret.op = "toggle"
  /\ ret.raised
  /\ file = ret.before.file
  /\ LoadsTo(file, ret.before.store)
  /\ ~LoadsTo(file, notifications)

(* ------------------------- frame of the methods ----------------------- *)
\* the entries of store d for the channels other than c
OtherChannels(d, c) == SelectSeq(d, LAMBDA e : e.key # ChannelKey(c))

\* list l1 is list l0 without its element at index i
Without(l0, l1, i) ==
  /\ Len(l1) = Len(l0) - 1
  /\ \A j \in 1 .. Len(l1) : l1[j] = IF j < i THEN l0[j] ELSE l0[j + 1]

\* C20: a call touches only its target. The entries of the other channels
\* are as they were, and an id that only another channel has is not found.
\* A toggle that finds its rule changes that rule's enabled flag and nothing
\* else of the list. An add puts the new rule behind the rules of the list,
\* which stay as they were, in their order. A remove that finds its rule
\* takes out the first rule with the id; the other rules stay as they were,
\* in their order.
C20_OnlyTheTarget ==
  (ret.op # "none") =>
    /\ OtherChannels(notifications, ret.ch) = OtherChannels(ret.before.store, ret.ch)
    /\ (LookedUp /\ Missed_Id) => (ret.returned = None /\ ListNow = ListBefore)
    /\ (ret.op = "toggle" /\ ~Missed_Id) =>
         LET i == FirstWithId(ListBefore, ret.id) IN
         /\ Len(ListNow) = Len(ListBefore)
         /\ \A j \in 1 .. Len(ListBefore) :
              ListNow[j] = IF j = i THEN [ListBefore[j] EXCEPT !.enabled = ~@]
                           ELSE ListBefore[j]
    /\ (ret.op = "add") =>
         /\ Len(ListNow) = Len(ListBefore) + 1
         /\ \A j \in 1 .. Len(ListBefore) : ListNow[j] = ListBefore[j]
         /\ ListNow[Len(ListNow)].id = ret.id
    /\ (ret.op = "remove" /\ ~Missed_Id) =>
         /\ Without(ListBefore, ListNow, FirstWithId(ListBefore, ret.id))
         /\ ret.returned = Some(ListBefore[FirstWithId(ListBefore, ret.id)])

\* a remove through one channel of an id that only the other channel has
C20_Witness ==
  /\ ret.op = "remove"
  /\ Missed_Id
  /\ \E c \in Channels : c # ret.ch /\ HasId(notifications, c, ret.id)
  /\ ListNow # <<>>

====
